---------------------------- MODULE Spec2Model ----------------------------
(***************************************************************************)
(* The "pantheon" command family of cmd/pantheon.go: four sub-commands     *)
(* (format, mount, umount, checkpoint) that validate their path arguments, *)
(* rebuild a flag list from the parsed cli context, re-execute the same    *)
(* binary with a translated argument vector, relay SIGINT/SIGTERM to the   *)
(* child and pass the child's exit code through.                           *)
(*                                                                         *)
(* Strings are sequences of one-character strings, so that prefixing,      *)
(* truncation at '?' and number formatting are computed, not assumed.      *)
(***************************************************************************)
EXTENDS Integers, Sequences, FiniteSets, TLC

(***************************************************************************)
(* Bounds of the model.                                                    *)
(***************************************************************************)
\* signals the environment may send to the wrapper in one run
MaxSignals == 2
\* flag occurrences on the caller's command line
MaxCallerFlags == 2

(***************************************************************************)
(* Program constants.                                                      *)
(***************************************************************************)
\* os.Interrupt and syscall.SIGTERM, by signal number
SIGINT == 2
SIGTERM == 15
\* make(chan os.Signal, 1)
ChanCap == 1
\* status of a process ended by logger.Fatalf
FatalStatus == 1

Signals == {SIGINT, SIGTERM}

(***************************************************************************)
(* String literals of the source.                                          *)
(***************************************************************************)
Scheme == <<"b", "a", "d", "g", "e", "r", ":", "/", "/">>
TrashDaysToken ==
    <<"-", "-", "t", "r", "a", "s", "h", "-", "d", "a", "y", "s", "=", "9", "9", "9">>
TokFormat == <<"f", "o", "r", "m", "a", "t">>
TokMount == <<"m", "o", "u", "n", "t">>
TokUmount == <<"u", "m", "o", "u", "n", "t">>
TokClone == <<"c", "l", "o", "n", "e">>
DashDash == <<"-", "-">>
Equals == <<"=">>

(***************************************************************************)
(* Generic helpers.                                                        *)
(***************************************************************************)
Range(s) == {s[i] : i \in 1..Len(s)}

SeqsUpTo(S, n) == UNION {[1..k -> S] : k \in 0..n}

DigitChars == <<"0", "1", "2", "3", "4", "5", "6", "7", "8", "9">>

RECURSIVE Digits(_)
Digits(n) ==
    IF n < 10 THEN <<DigitChars[n + 1]>>
    ELSE Digits(n \div 10) \o <<DigitChars[(n % 10) + 1]>>

\* fmt "%d"
FormatInt(n) == IF n < 0 THEN <<"-">> \o Digits(0 - n) ELSE Digits(n)

\* fmt "%f" (six decimals) of a non-negative value given in quarters
FormatFloat(q) ==
    LET frac == Digits((q % 4) * 250000)
        pad  == [i \in 1..(6 - Len(frac)) |-> "0"]
    IN  Digits(q \div 4) \o <<".">> \o pad \o frac

(***************************************************************************)
(* filepath.IsAbs on a Unix build.                                         *)
(***************************************************************************)
IsAbs(path) == Len(path) > 0 /\ path[1] = "/"

(***************************************************************************)
(* metaDirWithoutQuery: cut at the first '?'.                              *)
(***************************************************************************)
\* variant: cut at the last '?'
RECURSIVE metaDirScan_last(_, _)
metaDirScan_last(metaDir, i) ==
    IF i > Len(metaDir) THEN metaDir
    ELSE IF metaDir[Len(metaDir) + 1 - i] = "?" THEN SubSeq(metaDir, 1, Len(metaDir) - i)
    ELSE metaDirScan_last(metaDir, i + 1)

RECURSIVE metaDirScan(_, _)
metaDirScan(metaDir, i) ==
    IF i > Len(metaDir) THEN metaDir
    ELSE IF metaDir[i] = "?" THEN SubSeq(metaDir, 1, i - 1)
    ELSE metaDirScan(metaDir, i + 1)

metaDirWithoutQuery(metaDir) == metaDirScan(metaDir, 1)

(***************************************************************************)
(* validateAbsolutePath.  stat is the set of paths on which os.Stat        *)
(* returns no error.  The result is the name of the fatal condition, or    *)
(* "ok" when the function returns.                                         *)
(***************************************************************************)
\* variant: the absoluteness test left out
validateAbsolutePath_noAbs(path, shouldExist, stat) ==
    LET exists == path \in stat
    IN  IF shouldExist /\ ~exists THEN "PathMissing"
        ELSE IF ~shouldExist /\ exists THEN "PathAlreadyExists"
        ELSE "ok"

validateAbsolutePath(path, shouldExist, stat) ==
    LET exists == path \in stat
    IN  IF ~IsAbs(path) THEN "NotAbsolutePath"
        ELSE IF shouldExist /\ ~exists THEN "PathMissing"
        ELSE IF ~shouldExist /\ exists THEN "PathAlreadyExists"
        ELSE "ok"

(***************************************************************************)
(* The parsed cli context.  A schema is the ordered list c.Command.Flags;  *)
(* a flag is [names, type]; the caller's command line is the ordered list  *)
(* of [name, text] occurrences, text being the value as typed ("true" for  *)
(* a bare boolean flag).                                                   *)
(***************************************************************************)
N_storage == <<"s", "t", "o", "r", "a", "g", "e">>
N_trash_days == <<"t", "r", "a", "s", "h", "-", "d", "a", "y", "s">>
N_force == <<"f", "o", "r", "c", "e">>
N_f == <<"f">>
N_background == <<"b", "a", "c", "k", "g", "r", "o", "u", "n", "d">>
N_d == <<"d">>
N_upload_limit == <<"u", "p", "l", "o", "a", "d", "-", "l", "i", "m", "i", "t">>
N_free_space_ratio ==
    <<"f", "r", "e", "e", "-", "s", "p", "a", "c", "e", "-", "r", "a", "t", "i", "o">>
N_o == <<"o">>
N_heartbeat == <<"h", "e", "a", "r", "t", "b", "e", "a", "t">>

T_true == <<"t", "r", "u", "e">>
T_false == <<"f", "a", "l", "s", "e">>

\* cmdFormat().Flags, cmdMount().Flags, cmdUmount().Flags: a sample of each
\* flag type the reconstruction distinguishes; checkpoint declares no flag
FormatFlags ==
    << [names |-> <<N_storage>>, type |-> "StringFlag"],
       [names |-> <<N_trash_days>>, type |-> "IntFlag"],
       [names |-> <<N_force>>, type |-> "BoolFlag"] >>

MountFlags ==
    << [names |-> <<N_background, N_d>>, type |-> "BoolFlag"],
       [names |-> <<N_upload_limit>>, type |-> "Int64Flag"],
       [names |-> <<N_free_space_ratio>>, type |-> "Float64Flag"],
       [names |-> <<N_o>>, type |-> "StringSliceFlag"],
       [names |-> <<N_heartbeat>>, type |-> "DurationFlag"] >>

UmountFlags ==
    << [names |-> <<N_force, N_f>>, type |-> "BoolFlag"] >>

CheckpointFlags == << >>

FlagsOf(cmd) ==
    CASE cmd = "format" -> FormatFlags
      [] cmd = "mount" -> MountFlags
      [] cmd = "umount" -> UmountFlags
      [] cmd = "checkpoint" -> CheckpointFlags

\* the texts a caller may type for a flag of each type
TextsOf(type) ==
    CASE type = "BoolFlag" -> {T_true, T_false}
      [] type = "StringFlag" -> {<<"s", "3">>}
      [] type = "IntFlag" -> {<<"5">>, <<"9", "9", "9">>}
      [] type = "Int64Flag" -> {<<"7">>, <<"0", "1", "2">>}
      [] type = "Float64Flag" -> {<<"0", ".", "5">>, <<"2">>}
      [] type = "StringSliceFlag" -> {<<"x">>, <<"y">>}
      [] type = "DurationFlag" -> {<<"1", "2", "s">>}

CallerOptions(schema) ==
    UNION { { [name |-> n, text |-> t] :
                n \in Range(schema[i].names), t \in TextsOf(schema[i].type) } :
            i \in 1..Len(schema) }

(***************************************************************************)
(* Accessors of cli.Context, as the flag package resolves them: a flag is  *)
(* set when any of its names occurs; a scalar takes its last occurrence;   *)
(* a slice collects every occurrence in order.                             *)
(***************************************************************************)
Occurrences(flag, caller) ==
    SelectSeq(caller, LAMBDA e : e.name \in Range(flag.names))

IsSet(flag, caller) == Occurrences(flag, caller) # << >>

LastText(flag, caller) ==
    LET occ == Occurrences(flag, caller) IN occ[Len(occ)].text

DigitValue(ch) == CHOOSE d \in 0..9 : DigitChars[d + 1] = ch

RECURSIVE ParseDigits(_)
ParseDigits(text) ==
    IF text = << >> THEN 0
    ELSE 10 * ParseDigits(SubSeq(text, 1, Len(text) - 1)) + DigitValue(text[Len(text)])

RECURSIVE Pow10(_)
Pow10(k) == IF k = 0 THEN 1 ELSE 10 * Pow10(k - 1)

CtxBool(flag, caller) == LastText(flag, caller) = T_true

CtxString(flag, caller) == LastText(flag, caller)

CtxInt(flag, caller) == ParseDigits(LastText(flag, caller))

\* the value in quarters, for texts of the form d or d.ddd
CtxFloat64(flag, caller) ==
    LET text == LastText(flag, caller)
        dots == {i \in 1..Len(text) : text[i] = "."}
        dot  == IF dots = {} THEN Len(text) + 1 ELSE CHOOSE i \in dots : TRUE
        k    == IF dots = {} THEN 0 ELSE Len(text) - dot
        whole == ParseDigits(SubSeq(text, 1, dot - 1))
        frac  == ParseDigits(SubSeq(text, dot + 1, Len(text)))
    IN  ((whole * Pow10(k) + frac) * 4) \div Pow10(k)

CtxStringSlice(flag, caller) ==
    LET occ == Occurrences(flag, caller) IN [i \in 1..Len(occ) |-> occ[i].text]

(***************************************************************************)
(* buildFlagArgs.  The result is [fatal, args]: fatal when a set flag has  *)
(* a type outside the switch (logger.Fatalf ends the process).             *)
(***************************************************************************)
\* the rendering of the non-boolean, non-slice types
scalarTokens(flag, caller) ==
    LET flagName == flag.names[1]
        prefix   == DashDash \o flagName
    IN  CASE flag.type = "StringFlag" ->
               <<prefix \o Equals \o CtxString(flag, caller)>>
          [] flag.type = "IntFlag" ->
               <<prefix \o Equals \o FormatInt(CtxInt(flag, caller))>>
          [] flag.type = "Int64Flag" ->
               <<prefix \o Equals \o FormatInt(CtxInt(flag, caller))>>
          [] flag.type = "Float64Flag" ->
               <<prefix \o Equals \o FormatFloat(CtxFloat64(flag, caller))>>
          [] OTHER -> << >>

\* variant: a set boolean flag is emitted whatever its value
flagTokens_boolAlways(flag, caller) ==
    LET prefix == DashDash \o flag.names[1]
    IN  CASE flag.type = "BoolFlag" -> <<prefix>>
          [] flag.type = "StringSliceFlag" ->
               LET vs == CtxStringSlice(flag, caller)
               IN  [i \in 1..Len(vs) |-> prefix \o Equals \o vs[i]]
          [] OTHER -> scalarTokens(flag, caller)

\* variant: a repeated flag is emitted once, with its last value
flagTokens_sliceLast(flag, caller) ==
    LET prefix == DashDash \o flag.names[1]
    IN  CASE flag.type = "BoolFlag" ->
               IF CtxBool(flag, caller) THEN <<prefix>> ELSE << >>
          [] flag.type = "StringSliceFlag" ->
               <<prefix \o Equals \o LastText(flag, caller)>>
          [] OTHER -> scalarTokens(flag, caller)

flagTokens(flag, caller) ==
    LET flagName == flag.names[1]
        prefix   == DashDash \o flagName
    IN  CASE flag.type = "BoolFlag" ->
               IF CtxBool(flag, caller) THEN <<prefix>> ELSE << >>
          [] flag.type = "StringFlag" ->
               <<prefix \o Equals \o CtxString(flag, caller)>>
          [] flag.type = "IntFlag" ->
               <<prefix \o Equals \o FormatInt(CtxInt(flag, caller))>>
          [] flag.type = "Int64Flag" ->
               <<prefix \o Equals \o FormatInt(CtxInt(flag, caller))>>
          [] flag.type = "Float64Flag" ->
               <<prefix \o Equals \o FormatFloat(CtxFloat64(flag, caller))>>
          [] flag.type = "StringSliceFlag" ->
               LET vs == CtxStringSlice(flag, caller)
               IN  [i \in 1..Len(vs) |-> prefix \o Equals \o vs[i]]
          [] OTHER -> << >>

SupportedTypes ==
    {"BoolFlag", "StringFlag", "IntFlag", "Int64Flag", "Float64Flag", "StringSliceFlag"}

\* variant: each flag's tokens are put in front of the earlier ones
RECURSIVE buildFlagLoop_prepend(_, _, _, _)
buildFlagLoop_prepend(schema, caller, i, args) ==
    IF i > Len(schema) THEN [fatal |-> FALSE, args |-> args]
    ELSE IF ~IsSet(schema[i], caller) THEN buildFlagLoop_prepend(schema, caller, i + 1, args)
    ELSE IF schema[i].type \notin SupportedTypes THEN [fatal |-> TRUE, args |-> args]
    ELSE buildFlagLoop_prepend(schema, caller, i + 1, flagTokens(schema[i], caller) \o args)

RECURSIVE buildFlagLoop(_, _, _, _)
buildFlagLoop(schema, caller, i, args) ==
    IF i > Len(schema) THEN [fatal |-> FALSE, args |-> args]
    ELSE IF ~IsSet(schema[i], caller) THEN buildFlagLoop(schema, caller, i + 1, args)
    ELSE IF schema[i].type \notin SupportedTypes THEN [fatal |-> TRUE, args |-> args]
    ELSE buildFlagLoop(schema, caller, i + 1, args \o flagTokens(schema[i], caller))

buildFlagArgs(schema, caller) == buildFlagLoop(schema, caller, 1, << >>)

(***************************************************************************)
(* Inputs of one invocation.                                               *)
(***************************************************************************)
Commands == {"format", "mount", "umount", "checkpoint"}

\* positionals the command reads (setup(c, n) has accepted the invocation)
Arity(cmd) == IF cmd = "umount" THEN 1 ELSE 2

P_a == <<"/", "a">>
P_b == <<"/", "b">>
P_rel == <<"a">>
P_aq == <<"/", "a", "?", "x">>
P_relq == <<"a", "?", "x">>
P_aqq == <<"/", "a", "?", "x", "?", "y">>

Paths == {P_a, P_b, P_rel, P_aq, P_relq, P_aqq, << >>}

\* paths that may be present in the file system
StatPaths == {P_a, P_rel, P_aq}

\* positionals and file system that pass the command's own checks
GoodArgs(cmd) == IF cmd = "umount" THEN <<P_a>> ELSE <<P_a, P_b>>
GoodStat(cmd) == IF cmd \in {"mount", "checkpoint"} THEN {P_a} ELSE {}

\* every declaration order of three flags of different types
SchemaOrders ==
    LET sample == {MountFlags[1], MountFlags[2], MountFlags[4]}
    IN  {f \in [1..3 -> sample] : \A i, j \in 1..3 : f[i] = f[j] => i = j}

\* exit codes a child may choose
ExitCodes == {0, 1, 137}

(***************************************************************************)
(* State.                                                                  *)
(***************************************************************************)
VARIABLES
    cmdName,      \* the sub-command invoked
    posArgs,      \* c.Args()
    schema,       \* c.Command.Flags
    callerFlags,  \* flag occurrences of the command line, in caller order
    statOK,       \* paths on which os.Stat succeeds
    sigBudget,    \* signals the environment sends during this run
    pc,           \* position of the primary flow
    argv,         \* args handed to executeJuicefsCommand
    vlog,         \* calls of validateAbsolutePath: [path, shouldExist, result]
    outcome,      \* how the wrapper process ended, kind "running" until then
    subscribed,   \* signal.Notify(c, ...) in force
    chan,         \* buffered content of c (indices into sigs)
    relayPc,      \* position of the relay goroutine
    held,         \* sig held by the relay goroutine (index into sigs), 0 if none
    cmdProcess,   \* cmd.Process # nil
    child,        \* [state, ws]: the child process and its wait status
    childSigs,    \* signals delivered to the live child
    runErr,       \* err of cmd.Run()
    sigs,         \* every signal the wrapper received: [sig, phase, fate]
    forwards      \* every call of cmd.Process.Signal: [id, child]

inputs == <<cmdName, posArgs, schema, callerFlags, statOK, sigBudget>>
mainVars == <<pc, argv, vlog, outcome, runErr>>
relayVars == <<relayPc, held>>
childVars == <<child, childSigs>>
vars == <<cmdName, posArgs, schema, callerFlags, statOK, sigBudget, pc, argv, vlog,
          outcome, subscribed, chan, relayPc, held, cmdProcess, child, childSigs,
          runErr, sigs, forwards>>

Running == outcome.kind = "running"
NoOutcome == [kind |-> "running", code |-> 0, err |-> "nil"]
\* logger.Fatalf
Fatal == [kind |-> "fatal", code |-> FatalStatus, err |-> "nil"]
NoWaitStatus == [kind |-> "none", n |-> 0]

\* ProcessState.ExitCode(): -1 unless the process exited
ExitCode(ws) == IF ws.kind = "exited" THEN ws.n ELSE 0 - 1

\* os.Exit(code): the low eight bits become the process status
osExit(code) == [kind |-> "exit", code |-> code % 256, err |-> "nil"]

InitInputs ==
    \/ /\ cmdName \in Commands
       /\ posArgs \in [1..Arity(cmdName) -> Paths]
       /\ statOK \in SUBSET StatPaths
       /\ schema = FlagsOf(cmdName)
       /\ callerFlags = << >>
       /\ sigBudget = 0
    \/ /\ cmdName \in Commands
       /\ posArgs = GoodArgs(cmdName)
       /\ statOK = GoodStat(cmdName)
       /\ schema = FlagsOf(cmdName)
       /\ callerFlags \in SeqsUpTo(CallerOptions(schema), MaxCallerFlags)
       /\ sigBudget = 0
    \/ /\ cmdName \in Commands
       /\ posArgs = GoodArgs(cmdName)
       /\ statOK = GoodStat(cmdName)
       /\ schema = FlagsOf(cmdName)
       /\ callerFlags = << >>
       /\ sigBudget = MaxSignals
    \/ /\ cmdName = "mount"
       /\ posArgs = GoodArgs(cmdName)
       /\ statOK = GoodStat(cmdName)
       /\ schema \in SchemaOrders
       /\ callerFlags \in SeqsUpTo(CallerOptions(schema), MaxCallerFlags)
       /\ sigBudget = 0

Init ==
    /\ InitInputs
    /\ pc = "entry"
    /\ argv = << >>
    /\ vlog = << >>
    /\ outcome = NoOutcome
    /\ subscribed = FALSE
    /\ chan = << >>
    /\ relayPc = "none"
    /\ held = 0
    /\ cmdProcess = FALSE
    /\ child = [state |-> "none", ws |-> NoWaitStatus]
    /\ childSigs = {}
    /\ runErr = "nil"
    /\ sigs = << >>
    /\ forwards = << >>

runnerUnchanged ==
    UNCHANGED <<inputs, runErr, subscribed, chan, relayVars, cmdProcess, childVars,
                sigs, forwards>>

\* one call of validateAbsolutePath, as logged
vcall(path, shouldExist) ==
    [path |-> path, shouldExist |-> shouldExist,
     result |-> validateAbsolutePath(path, shouldExist, statOK)]

\* the handler either dies in logger.Fatalf or reaches executeJuicefsCommand(args)
proceed(fatal, args) ==
    IF fatal
    THEN /\ outcome' = Fatal
         /\ pc' = "done"
         /\ argv' = argv
    ELSE /\ argv' = args
         /\ pc' = "exec"
         /\ outcome' = outcome

(***************************************************************************)
(* The four handlers, up to their call of executeJuicefsCommand.           *)
(***************************************************************************)
pantheonFormat ==
    /\ pc = "entry" /\ Running /\ cmdName = "format"
    /\ LET metaDir == posArgs[1]
           name    == posArgs[2]
           v       == vcall(metaDirWithoutQuery(metaDir), FALSE)
           built   == buildFlagArgs(schema, callerFlags)
           args    == <<TokFormat, Scheme \o metaDir, name, TrashDaysToken>> \o built.args
       IN  /\ vlog' = Append(vlog, v)
           /\ proceed(v.result # "ok" \/ built.fatal, args)
    /\ runnerUnchanged

pantheonMount ==
    /\ pc = "entry" /\ Running /\ cmdName = "mount"
    /\ LET metaDir    == posArgs[1]
           mountPoint == posArgs[2]
           v          == vcall(metaDirWithoutQuery(metaDir), TRUE)
           built      == buildFlagArgs(schema, callerFlags)
           args       == <<TokMount, Scheme \o metaDir, mountPoint>> \o built.args
       IN  /\ vlog' = Append(vlog, v)
           /\ proceed(v.result # "ok" \/ built.fatal, args)
    /\ runnerUnchanged

\* variant: the mount point is validated like a meta-location of mount
pantheonUmount_validating ==
    /\ pc = "entry" /\ Running /\ cmdName = "umount"
    /\ LET mountPoint == posArgs[1]
           v          == vcall(mountPoint, TRUE)
           built      == buildFlagArgs(schema, callerFlags)
           args       == <<TokUmount, mountPoint>> \o built.args
       IN  /\ vlog' = Append(vlog, v)
           /\ proceed(v.result # "ok" \/ built.fatal, args)
    /\ runnerUnchanged

pantheonUmount ==
    /\ pc = "entry" /\ Running /\ cmdName = "umount"
    /\ LET mountPoint == posArgs[1]
           built      == buildFlagArgs(schema, callerFlags)
           args       == <<TokUmount, mountPoint>> \o built.args
       IN  /\ vlog' = vlog
           /\ proceed(built.fatal, args)
    /\ runnerUnchanged

\* variant: the two locations are handed over in the wrong order
pantheonCheckpoint_swapped ==
    /\ pc = "entry" /\ Running /\ cmdName = "checkpoint"
    /\ LET oldMetaDir == posArgs[1]
           newMetaDir == posArgs[2]
           v1         == vcall(oldMetaDir, TRUE)
           v2         == vcall(newMetaDir, FALSE)
           args       == <<TokClone, newMetaDir, oldMetaDir>>
       IN  /\ vlog' = IF v1.result # "ok" THEN <<v1>> ELSE <<v1, v2>>
           /\ proceed(v1.result # "ok" \/ v2.result # "ok", args)
    /\ runnerUnchanged

\* variant: the new location is not validated
pantheonCheckpoint_oldOnly ==
    /\ pc = "entry" /\ Running /\ cmdName = "checkpoint"
    /\ LET oldMetaDir == posArgs[1]
           newMetaDir == posArgs[2]
           v1         == vcall(oldMetaDir, TRUE)
           args       == <<TokClone, oldMetaDir, newMetaDir>>
       IN  /\ vlog' = <<v1>>
           /\ proceed(v1.result # "ok", args)
    /\ runnerUnchanged

pantheonCheckpoint ==
    /\ pc = "entry" /\ Running /\ cmdName = "checkpoint"
    /\ LET oldMetaDir == posArgs[1]
           newMetaDir == posArgs[2]
           v1         == vcall(oldMetaDir, TRUE)
           v2         == vcall(newMetaDir, FALSE)
           args       == <<TokClone, oldMetaDir, newMetaDir>>
       IN  /\ vlog' = IF v1.result # "ok" THEN <<v1>> ELSE <<v1, v2>>
           /\ proceed(v1.result # "ok" \/ v2.result # "ok", args)
    /\ runnerUnchanged

(***************************************************************************)
(* executeJuicefsCommand, primary flow.                                    *)
(***************************************************************************)
\* os.Executable() and exec.Command: the lookup may fail, which is fatal
ResolveExecutable ==
    /\ pc = "exec" /\ Running
    /\ \/ pc' = "notify" /\ outcome' = outcome
       \/ pc' = "done" /\ outcome' = Fatal
    /\ UNCHANGED <<inputs, argv, vlog, runErr, subscribed, chan, relayVars, cmdProcess,
                   childVars, sigs, forwards>>

\* variant: the channel is created but signal.Notify is not called
Subscribe_late ==
    /\ pc = "notify" /\ Running
    /\ subscribed' = FALSE
    /\ chan' = << >>
    /\ pc' = "go"
    /\ UNCHANGED <<inputs, argv, vlog, outcome, runErr, relayVars, cmdProcess, childVars,
                   sigs, forwards>>

\* c := make(chan os.Signal, 1); signal.Notify(c, os.Interrupt, syscall.SIGTERM)
Subscribe ==
    /\ pc = "notify" /\ Running
    /\ subscribed' = TRUE
    /\ chan' = << >>
    /\ pc' = "go"
    /\ UNCHANGED <<inputs, argv, vlog, outcome, runErr, relayVars, cmdProcess, childVars,
                   sigs, forwards>>

\* go func() { for sig := range c { ... } }()
StartRelay ==
    /\ pc = "go" /\ Running
    /\ relayPc' = "recv"
    /\ pc' = "start"
    /\ UNCHANGED <<inputs, argv, vlog, outcome, runErr, subscribed, chan, held, cmdProcess,
                   childVars, sigs, forwards>>

\* cmd.Run(), first half (cmd.Start): the child is spawned, or the spawn fails
CmdStart ==
    /\ pc = "start" /\ Running
    /\ \/ /\ cmdProcess' = TRUE
          /\ child' = [state |-> "alive", ws |-> NoWaitStatus]
          /\ pc' = "wait"
          /\ runErr' = runErr
       \/ /\ runErr' = "spawn"
          /\ pc' = "stop"
          /\ UNCHANGED <<cmdProcess, child>>
    /\ UNCHANGED <<inputs, argv, vlog, outcome, subscribed, chan, relayVars, childSigs,
                   sigs, forwards>>

\* variant: a child that did not exit with status 0 is started again
CmdWait_retry ==
    /\ pc = "wait" /\ Running
    /\ child.state = "dead"
    /\ IF child.ws.kind = "exited" /\ child.ws.n = 0
       THEN runErr' = "nil" /\ pc' = "stop"
       ELSE runErr' = runErr /\ pc' = "start"
    /\ UNCHANGED <<inputs, argv, vlog, outcome, subscribed, chan, relayVars, cmdProcess,
                   childVars, sigs, forwards>>

\* cmd.Run(), second half (cmd.Wait): returns once the child has terminated,
\* with an *exec.ExitError unless the child exited with status 0
CmdWait ==
    /\ pc = "wait" /\ Running
    /\ child.state = "dead"
    /\ runErr' = IF child.ws.kind = "exited" /\ child.ws.n = 0 THEN "nil" ELSE "ExitError"
    /\ pc' = "stop"
    /\ UNCHANGED <<inputs, argv, vlog, outcome, subscribed, chan, relayVars, cmdProcess,
                   childVars, sigs, forwards>>

\* variant: the unsubscription placed after the exit-code branch
SignalStop_afterExitBranch ==
    /\ pc = "stop" /\ Running
    /\ subscribed' = (subscribed /\ runErr = "ExitError")
    /\ pc' = "check"
    /\ UNCHANGED <<inputs, argv, vlog, outcome, runErr, chan, relayVars, cmdProcess,
                   childVars, sigs, forwards>>

\* signal.Stop(c)
SignalStop ==
    /\ pc = "stop" /\ Running
    /\ subscribed' = FALSE
    /\ pc' = "check"
    /\ UNCHANGED <<inputs, argv, vlog, outcome, runErr, chan, relayVars, cmdProcess,
                   childVars, sigs, forwards>>

\* if exitError, ok := err.(*exec.ExitError); ok { os.Exit(...) }; return err
ExitOrReturn ==
    /\ pc = "check" /\ Running
    /\ outcome' = IF runErr = "ExitError"
                  THEN osExit(ExitCode(child.ws))
                  ELSE [kind |-> "return", code |-> 0, err |-> runErr]
    /\ pc' = "done"
    /\ UNCHANGED <<inputs, argv, vlog, runErr, subscribed, chan, relayVars, cmdProcess,
                   childVars, sigs, forwards>>

(***************************************************************************)
(* executeJuicefsCommand, the relay goroutine.                             *)
(***************************************************************************)
setFate(i, fate) == [sigs EXCEPT ![i].fate = fate]

\* variant: the receive leaves the value in the channel
RelayRecv_peek ==
    /\ relayPc = "recv" /\ Running
    /\ chan # << >>
    /\ held' = Head(chan)
    /\ chan' = chan
    /\ sigs' = setFate(Head(chan), "held")
    /\ relayPc' = "check"
    /\ UNCHANGED <<inputs, mainVars, subscribed, cmdProcess, childVars, forwards>>

\* for sig := range c
RelayRecv ==
    /\ relayPc = "recv" /\ Running
    /\ chan # << >>
    /\ held' = Head(chan)
    /\ chan' = Tail(chan)
    /\ sigs' = setFate(Head(chan), "held")
    /\ relayPc' = "check"
    /\ UNCHANGED <<inputs, mainVars, subscribed, cmdProcess, childVars, forwards>>

\* if cmd.Process != nil: the read is not ordered with the write of cmd.Start,
\* so after the start it may still see nil
RelayCheck ==
    /\ relayPc = "check" /\ Running
    /\ \E seen \in (IF cmdProcess THEN BOOLEAN ELSE {FALSE}) :
          IF seen
          THEN /\ relayPc' = "signal"
               /\ UNCHANGED <<held, sigs>>
          ELSE /\ relayPc' = "recv"
               /\ held' = 0
               /\ sigs' = setFate(held, "discarded")
    /\ UNCHANGED <<inputs, mainVars, subscribed, chan, cmdProcess, childVars, forwards>>

\* cmd.Process.Signal(sig), error ignored
RelaySignal ==
    /\ relayPc = "signal" /\ Running
    /\ forwards' = Append(forwards, [id |-> held, child |-> child.state])
    /\ sigs' = setFate(held, "forwarded")
    /\ childSigs' = IF child.state = "alive" THEN childSigs \cup {sigs[held].sig}
                    ELSE childSigs
    /\ held' = 0
    /\ relayPc' = "recv"
    /\ UNCHANGED <<inputs, mainVars, subscribed, chan, cmdProcess, child>>

(***************************************************************************)
(* Environment: signals sent to the wrapper, and the child.                *)
(***************************************************************************)
\* the channel send of package signal never blocks: a full channel loses the
\* signal; without a subscription the default action ends the wrapper
\* variant: only SIGTERM is subscribed, SIGINT keeps its default action
SignalArrives_sigtermOnly ==
    /\ Running
    /\ Len(sigs) < sigBudget
    /\ \E s \in Signals :
          LET id  == Len(sigs) + 1
              rec == [sig |-> s, phase |-> child.state, fate |-> "queued"]
          IN  IF subscribed /\ s = SIGTERM
              THEN IF Len(chan) < ChanCap
                   THEN /\ chan' = Append(chan, id)
                        /\ sigs' = Append(sigs, rec)
                        /\ UNCHANGED <<pc, outcome>>
                   ELSE /\ sigs' = Append(sigs, [rec EXCEPT !.fate = "dropped"])
                        /\ UNCHANGED <<pc, outcome, chan>>
              ELSE /\ sigs' = Append(sigs, [rec EXCEPT !.fate = "default"])
                   /\ outcome' = [kind |-> "killed", code |-> 128 + s, err |-> "nil"]
                   /\ pc' = "done"
                   /\ chan' = chan
    /\ UNCHANGED <<inputs, argv, vlog, runErr, subscribed, relayVars, cmdProcess, childVars,
                   forwards>>

SignalArrives ==
    /\ Running
    /\ Len(sigs) < sigBudget
    /\ \E s \in Signals :
          LET id  == Len(sigs) + 1
              rec == [sig |-> s, phase |-> child.state, fate |-> "queued"]
          IN  IF subscribed
              THEN IF Len(chan) < ChanCap
                   THEN /\ chan' = Append(chan, id)
                        /\ sigs' = Append(sigs, rec)
                        /\ UNCHANGED <<pc, outcome>>
                   ELSE /\ sigs' = Append(sigs, [rec EXCEPT !.fate = "dropped"])
                        /\ UNCHANGED <<pc, outcome, chan>>
              ELSE /\ sigs' = Append(sigs, [rec EXCEPT !.fate = "default"])
                   /\ outcome' = [kind |-> "killed", code |-> 128 + s, err |-> "nil"]
                   /\ pc' = "done"
                   /\ chan' = chan
    /\ UNCHANGED <<inputs, argv, vlog, runErr, subscribed, relayVars, cmdProcess, childVars,
                   forwards>>

\* the child exits by itself
ChildExit ==
    /\ child.state = "alive"
    /\ \E k \in ExitCodes : child' = [state |-> "dead", ws |-> [kind |-> "exited", n |-> k]]
    /\ UNCHANGED <<inputs, mainVars, subscribed, chan, relayVars, cmdProcess, childSigs,
                   sigs, forwards>>

\* a delivered signal terminates the child (default disposition)
ChildKilled ==
    /\ child.state = "alive"
    /\ \E s \in childSigs : child' = [state |-> "dead", ws |-> [kind |-> "signaled", n |-> s]]
    /\ UNCHANGED <<inputs, mainVars, subscribed, chan, relayVars, cmdProcess, childSigs,
                   sigs, forwards>>

Next ==
    \/ pantheonFormat
    \/ pantheonMount
    \/ pantheonUmount
    \/ pantheonCheckpoint
    \/ ResolveExecutable
    \/ Subscribe
    \/ StartRelay
    \/ CmdStart
    \/ CmdWait
    \/ SignalStop
    \/ ExitOrReturn
    \/ RelayRecv
    \/ RelayCheck
    \/ RelaySignal
    \/ SignalArrives
    \/ ChildExit
    \/ ChildKilled

Spec == Init /\ [][Next]_vars

\* the primary flow is a runnable goroutine whenever its next statement can
\* execute: cmd.Wait returns once the child has terminated, and the
\* statements after it follow
Fairness ==
    /\ WF_vars(CmdWait)
    /\ WF_vars(SignalStop)
    /\ WF_vars(ExitOrReturn)

FairSpec == Init /\ [][Next]_vars /\ Fairness

TypeOK ==
    /\ cmdName \in Commands
    /\ pc \in {"entry", "exec", "notify", "go", "start", "wait", "stop", "check", "done"}
    /\ relayPc \in {"none", "recv", "check", "signal"}
    /\ outcome.kind \in {"running", "fatal", "exit", "return", "killed"}
    /\ child.state \in {"none", "alive", "dead"}
    /\ Len(chan) <= ChanCap
    /\ held \in 0..Len(sigs)

(***************************************************************************)
(* Properties of executeJuicefsCommand.                                    *)
(***************************************************************************)
\* the status a parent observes for a terminated child: its exit code, or
\* 128 + the signal number when a signal terminated it
ChildStatus(ws) == IF ws.kind = "exited" THEN ws.n ELSE 128 + ws.n

\* C1: whenever the wrapper has ended through its own exit or return and the
\* child terminated with a non-zero status k (signal terminations included),
\* the wrapper's status is exactly k.
C1_ExitCodePassthrough ==
    (outcome.kind \in {"exit", "return"} /\ child.state = "dead"
        /\ ChildStatus(child.ws) # 0)
    => outcome.code = ChildStatus(child.ws)

\* C2: after cmd.Run() has returned and the primary flow has passed line 194,
\* and in every terminal state of the run, the subscription is not active.
C2_SubscriptionTornDown ==
    pc \in {"check", "done"} => ~subscribed

\* C2 witness: the wrapper ended with the child's non-zero exit code, after a
\* subscription that is no longer active.
C2_Witness ==
    /\ outcome.kind = "exit" /\ outcome.code # 0
    /\ relayPc # "none"
    /\ ~subscribed

\* C3: no signal received while the child was alive is lost: each is still
\* on its way to the child (buffered or held by the relay) or was forwarded.
C3_EveryLiveSignalForwarded ==
    \A i \in 1..Len(sigs) :
        sigs[i].phase = "alive" => sigs[i].fate \in {"queued", "held", "forwarded"}

\* C4: a signal received before the child was started is never forwarded.
C4_NoRetroactiveDelivery ==
    \A i \in 1..Len(sigs) :
        sigs[i].phase = "none" => sigs[i].fate # "forwarded"

\* C5: the forward attempts never outnumber the signals received, and no
\* received signal is the subject of two forward attempts.
C5_AtMostOnce ==
    /\ Len(forwards) <= Len(sigs)
    /\ \A j, k \in 1..Len(forwards) : forwards[j].id = forwards[k].id => j = k

\* C5 witness: two received signals have each been forwarded.
C5_Witness ==
    /\ Len(forwards) >= 2
    /\ \E i, j \in 1..Len(sigs) :
          i # j /\ sigs[i].fate = "forwarded" /\ sigs[j].fate = "forwarded"

(***************************************************************************)
(* Properties of the path checks.                                          *)
(***************************************************************************)
Exists(path) == path \in statOK

QueryPositions(path) == {i \in 1..Len(path) : path[i] = "?"}

\* the text before the first '?' (the whole text when there is none)
BeforeQuery(path) ==
    IF QueryPositions(path) = {} THEN path
    ELSE LET first == CHOOSE i \in QueryPositions(path) :
                         \A j \in QueryPositions(path) : i <= j
         IN  SubSeq(path, 1, first - 1)

\* the invocation violates a path precondition of its command
PathCheckFails ==
    CASE cmdName = "format" ->
           ~IsAbs(BeforeQuery(posArgs[1])) \/ Exists(BeforeQuery(posArgs[1]))
      [] cmdName = "mount" ->
           ~IsAbs(BeforeQuery(posArgs[1])) \/ ~Exists(BeforeQuery(posArgs[1]))
      [] cmdName = "checkpoint" ->
           \/ ~IsAbs(posArgs[1]) \/ ~Exists(posArgs[1])
           \/ ~IsAbs(posArgs[2]) \/ Exists(posArgs[2])
      [] OTHER -> FALSE

\* C6: when a path precondition of format, mount or checkpoint is violated,
\* no child is ever spawned, the primary flow never enters the runner, and
\* once the handler has run the wrapper has ended with a non-zero status.
C6_PathViolationBeforeSpawn ==
    PathCheckFails =>
        /\ child.state = "none" /\ ~cmdProcess
        /\ pc \in {"entry", "done"}
        /\ pc = "done" => (outcome.kind \in {"fatal", "killed"} /\ outcome.code # 0)

\* C6 witness: a checkpoint whose old location passes and whose new location
\* already exists has ended fatally without a child.
C6_Witness ==
    /\ cmdName = "checkpoint"
    /\ IsAbs(posArgs[1]) /\ Exists(posArgs[1])
    /\ IsAbs(posArgs[2]) /\ Exists(posArgs[2])
    /\ outcome.kind = "fatal" /\ child.state = "none"

\* C7: every call validateAbsolutePath(p, shouldExist) fails iff p is not
\* absolute or the existence of p differs from shouldExist; in particular a
\* non-absolute p fails whatever its existence and shouldExist.
C7_ValidateIff ==
    \A i \in 1..Len(vlog) :
        LET v == vlog[i]
        IN  /\ (v.result # "ok") <=> (~IsAbs(v.path) \/ (Exists(v.path) # v.shouldExist))
            /\ ~IsAbs(v.path) => v.result # "ok"

\* C7 witness: a relative path that exists was validated with
\* shouldExist = true and rejected.
C7_Witness ==
    \E i \in 1..Len(vlog) :
        /\ ~IsAbs(vlog[i].path) /\ Exists(vlog[i].path)
        /\ vlog[i].shouldExist
        /\ vlog[i].result # "ok"

\* C8: for format and mount with a '?' in the meta-location, the one path
\* check is made on the text before the first '?', and the first positional
\* argument of the target command is "badger://" followed by the whole
\* original value.
C8_QueryStripping ==
    (cmdName \in {"format", "mount"} /\ QueryPositions(posArgs[1]) # {}
        /\ pc # "entry" /\ outcome.kind # "killed")
    => /\ Len(vlog) = 1
       /\ vlog[1].path = BeforeQuery(posArgs[1])
       /\ vlog[1].shouldExist = (cmdName = "mount")
       /\ outcome.kind # "fatal" =>
             (Len(argv) >= 2 /\ argv[2] = Scheme \o posArgs[1])

\* C8 witness: mount of "/a?x?y" with "/a" present reached the runner.
C8_Witness ==
    /\ cmdName = "mount" /\ posArgs[1] = P_aqq
    /\ Len(vlog) = 1 /\ vlog[1].path = P_a /\ vlog[1].result = "ok"
    /\ Len(argv) >= 2 /\ argv[2] = Scheme \o P_aqq

(***************************************************************************)
(* Properties of the format translation.                                   *)
(***************************************************************************)
Count(seq, x) == Cardinality({i \in 1..Len(seq) : seq[i] = x})

IsTrashDaysToken(tok) ==
    /\ Len(tok) >= Len(DashDash \o N_trash_days)
    /\ SubSeq(tok, 1, Len(DashDash \o N_trash_days)) = DashDash \o N_trash_days

\* C9: the argument list of every format invocation holds the token
\* --trash-days=999 exactly once, right after the location and the volume
\* name and so before every caller-supplied flag token.
C9_ForcedTrashDaysOnce ==
    (cmdName = "format" /\ argv # << >>)
    => /\ Count(argv, TrashDaysToken) = 1
       /\ argv[4] = TrashDaysToken

\* C10: no format invocation yields an argument list with a trash-days
\* token after the forced one.
C10_NoSecondTrashDays ==
    (cmdName = "format" /\ argv # << >>)
    => \A i \in 5..Len(argv) : ~IsTrashDaysToken(argv[i])

(***************************************************************************)
(* Properties of the flag reconstruction.                                  *)
(***************************************************************************)
\* tokens the handler puts in front of the reconstructed flags
FixedLen ==
    CASE cmdName = "format" -> 4
      [] cmdName = "umount" -> 2
      [] OTHER -> 3

\* the reconstructed flags, as they stand in the argument list
FlagArgs == SubSeq(argv, FixedLen + 1, Len(argv))

HasPrefix(tok, prefix) ==
    Len(tok) >= Len(prefix) /\ SubSeq(tok, 1, Len(prefix)) = prefix

\* tok is --name or --name=value for the first-listed name of schema[i]
TokenOf(tok, i) ==
    LET bare == DashDash \o schema[i].names[1]
    IN  tok = bare \/ HasPrefix(tok, bare \o Equals)

\* the caller typed some name of schema[i]
SetByCaller(i) ==
    \E j \in 1..Len(callerFlags) : callerFlags[j].name \in Range(schema[i].names)

\* C11: every reconstructed token belongs, under the first-listed name, to a
\* flag the caller set, and the tokens follow the declaration order of the
\* schema whatever the order of the caller's command line.
C11_SchemaOrder ==
    argv # << >> =>
        /\ \A k \in 1..Len(FlagArgs) :
              \E i \in 1..Len(schema) : TokenOf(FlagArgs[k], i) /\ SetByCaller(i)
        /\ \A k, l \in 1..Len(FlagArgs) :
              \A i, j \in 1..Len(schema) :
                 (k < l /\ TokenOf(FlagArgs[k], i) /\ TokenOf(FlagArgs[l], j)) => i <= j

\* C11 witness: the caller set a later-declared flag before an earlier one
\* and both tokens were emitted, the earlier-declared first.
C11_Witness ==
    /\ argv # << >> /\ Len(callerFlags) = 2 /\ Len(FlagArgs) >= 2
    /\ \E a, b \in 1..Len(schema) :
          /\ a < b
          /\ callerFlags[1].name \in Range(schema[b].names)
          /\ callerFlags[2].name \in Range(schema[a].names)
          /\ TokenOf(FlagArgs[1], a)
          /\ TokenOf(FlagArgs[Len(FlagArgs)], b)

\* positions of the caller's occurrences of schema[i]
CallerPositions(i) ==
    {j \in 1..Len(callerFlags) : callerFlags[j].name \in Range(schema[i].names)}

\* the value a scalar flag resolves to: the text of its last occurrence
ResolvedText(i) ==
    LET last == CHOOSE j \in CallerPositions(i) : \A k \in CallerPositions(i) : k <= j
    IN  callerFlags[last].text

\* positions of the tokens of schema[i] among the reconstructed flags
TokenPositions(i) == {k \in 1..Len(FlagArgs) : TokenOf(FlagArgs[k], i)}

\* C12: for a boolean flag the caller set, the reconstructed flags hold the
\* bare token --name exactly once when the flag resolves to true, and no
\* token of that flag when it resolves to false.
C12_BoolRendering ==
    argv # << >> =>
        \A i \in 1..Len(schema) :
            (schema[i].type = "BoolFlag" /\ SetByCaller(i)) =>
                IF ResolvedText(i) = T_true
                THEN /\ Cardinality(TokenPositions(i)) = 1
                     /\ \A k \in TokenPositions(i) :
                           FlagArgs[k] = DashDash \o schema[i].names[1]
                ELSE TokenPositions(i) = {}

\* C12 witness: a boolean flag typed as true and then as false reached the
\* runner without a token.
C12_Witness ==
    /\ argv # << >> /\ Len(callerFlags) = 2
    /\ \E i \in 1..Len(schema) :
          /\ schema[i].type = "BoolFlag"
          /\ CallerPositions(i) = {1, 2}
          /\ callerFlags[1].text = T_true /\ callerFlags[2].text = T_false
          /\ TokenPositions(i) = {}

\* C13: a repeated-string flag set with n values yields exactly n tokens,
\* contiguous, the k-th being --name= followed by the k-th value.
C13_SliceRendering ==
    argv # << >> =>
        \A i \in 1..Len(schema) :
            (schema[i].type = "StringSliceFlag" /\ SetByCaller(i)) =>
                LET n == Cardinality(CallerPositions(i))
                IN  /\ Cardinality(TokenPositions(i)) = n
                    /\ \E first \in 1..Len(FlagArgs) :
                          /\ TokenPositions(i) = first..(first + n - 1)
                          /\ \A k \in 1..n :
                                LET j == CHOOSE j \in CallerPositions(i) :
                                            Cardinality({m \in CallerPositions(i) : m <= j}) = k
                                IN  FlagArgs[first + k - 1] =
                                       DashDash \o schema[i].names[1] \o Equals
                                          \o callerFlags[j].text

\* C13 witness: a repeated flag given the values y then x yielded the two
\* tokens in that order.
C13_Witness ==
    /\ argv # << >>
    /\ \E i \in 1..Len(schema) :
          /\ schema[i].type = "StringSliceFlag"
          /\ CallerPositions(i) = {1, 2}
          /\ callerFlags[1].text = <<"y">> /\ callerFlags[2].text = <<"x">>
          /\ \E k \in 1..(Len(FlagArgs) - 1) :
                /\ FlagArgs[k] = DashDash \o schema[i].names[1] \o Equals \o <<"y">>
                /\ FlagArgs[k + 1] = DashDash \o schema[i].names[1] \o Equals \o <<"x">>

(***************************************************************************)
(* Properties of the umount and checkpoint translations.                   *)
(***************************************************************************)
\* the handler has run (the wrapper was not ended by a signal before it)
HandlerRan == pc # "entry" /\ ~(outcome.kind = "killed" /\ argv = << >>)

\* C14: umount validates nothing: once the handler has run, whatever the
\* mount point, no path check was made, the handler did not end the process
\* and the argument list of the child is "umount", the mount point and the
\* reconstructed flags.
C14_UmountNoValidation ==
    (cmdName = "umount" /\ HandlerRan) =>
        /\ vlog = << >>
        /\ argv = <<TokUmount, posArgs[1]>> \o buildFlagArgs(schema, callerFlags).args
        /\ callerFlags = << >> => argv = <<TokUmount, posArgs[1]>>

\* C14 witness: umount of a relative, absent mount point has a live child.
C14_Witness ==
    /\ cmdName = "umount"
    /\ ~IsAbs(posArgs[1]) /\ ~Exists(posArgs[1])
    /\ child.state = "alive"
    /\ argv = <<TokUmount, posArgs[1]>>

\* C15: checkpoint reaches the runner only with an absolute, present old
\* location and an absolute, absent new location, and the argument list is
\* then exactly "clone", old, new.
C15_CheckpointClone ==
    (cmdName = "checkpoint" /\ (argv # << >> \/ pc \notin {"entry", "done"}
        \/ child.state # "none"))
    => /\ IsAbs(posArgs[1]) /\ Exists(posArgs[1])
       /\ IsAbs(posArgs[2]) /\ ~Exists(posArgs[2])
       /\ argv = <<TokClone, posArgs[1], posArgs[2]>>

\* C15 witness: a checkpoint with distinct locations has a live child.
C15_Witness ==
    /\ cmdName = "checkpoint"
    /\ child.state = "alive"
    /\ posArgs[1] # posArgs[2]
    /\ argv = <<TokClone, posArgs[1], posArgs[2]>>

(***************************************************************************)
(* Properties of the runner's life cycle.                                  *)
(***************************************************************************)
\* C16: after a successful spawn no signal ends the wrapper by itself; a
\* terminated wrapper never has a live child; and once the child has
\* terminated the wrapper eventually terminates.
C16_NoIndependentCancellation ==
    /\ [](cmdProcess => outcome.kind # "killed")
    /\ [](~Running => child.state # "alive")
    /\ (child.state = "dead" ~> ~Running)

\* C16 as amended: while the subscription is active no step, and so no
\* signal, ends the wrapper, and a wrapper ended by a signal had no active
\* subscription; a terminated wrapper never has a live child; and once the
\* child has terminated the wrapper eventually terminates.
C16_Amended ==
    /\ [][subscribed => Running']_vars
    /\ [](outcome.kind = "killed" => ~subscribed)
    /\ [](~Running => child.state # "alive")
    /\ (child.state = "dead" ~> ~Running)

\* C16 witness: a signal reached the wrapper while the child was alive, and
\* the wrapper ended only through its own exit after the child's death.
C16_Witness ==
    /\ outcome.kind = "exit"
    /\ child.state = "dead"
    /\ \E i \in 1..Len(sigs) : sigs[i].phase = "alive"

\* C17: every path check of format, mount and checkpoint is made on the
\* value truncated at its first '?', never on the value as given.
C17_StripBeforeEveryValidation ==
    \A i \in 1..Len(vlog) : vlog[i].path = BeforeQuery(posArgs[i])

\* C18: once cmd.Run() has returned and signal.Stop(c) has run, the relay
\* goroutine makes no further call of cmd.Process.Signal.
C18_NoForwardAfterTeardown ==
    [][(pc \in {"check", "done"} /\ ~subscribed) => forwards' = forwards]_vars

\* C19: a child is spawned only from the state in which none was spawned
\* and no spawn has failed, by the one start statement; a terminated child
\* stays terminated and a failed spawn leaves the run without a child: at
\* most one child per invocation, and no retry.
C19_NoRetry ==
    /\ [][(child'.state = "alive" /\ child.state # "alive")
            => (child.state = "none" /\ pc = "start" /\ runErr = "nil")]_vars
    /\ [][child.state = "dead" => child'.state = "dead"]_vars
    /\ [](runErr = "spawn" => (child.state = "none" /\ ~cmdProcess))

\* C19 witness: the spawn failed and the wrapper returned the error without
\* a child ever existing.
C19_Witness ==
    /\ runErr = "spawn"
    /\ outcome.kind = "return" /\ outcome.err = "spawn"
    /\ child.state = "none"

\* C20: whenever the child is alive, and whenever the primary flow is
\* between the start of the child and the return of the wait, the wrapper is
\* subscribed to SIGINT and SIGTERM.
C20_SubscribedWhileChildRuns ==
    (child.state = "alive" \/ pc \in {"start", "wait"}) => subscribed

\* C20 witness: the child is alive, the wait has not returned, and a signal
\* received meanwhile sits in the channel of the subscription.
C20_Witness ==
    /\ child.state = "alive" /\ pc = "wait"
    /\ subscribed
    /\ chan # << >> /\ sigs[chan[1]].phase = "alive"

=============================================================================
